---- MODULE Spec2Model ----
(***************************************************************************)
(* A model of madboost_lp_calculator.py: the rank ladder, the LP gap       *)
(* calculation, the compounding price progression and the two-path         *)
(* calculation run by the "Calculate Boost Price" button.                  *)
(*                                                                         *)
(* Prices are Python floats in the program.  Here a price is an exact      *)
(* rational <<numerator, denominator>> in lowest terms, and round(x, n)    *)
(* is the round-half-to-even that Python applies.  For growth rates of     *)
(* 0, 25, 50 and 100 percent and base prices that are power-of-two         *)
(* fractions every intermediate value is a dyadic rational that a float    *)
(* holds exactly, so the rational and the float computation agree.  The    *)
(* documented cases at 10 and 20 percent are walked for a few steps only,  *)
(* over which the rounded results of the two computations are the same.    *)
(***************************************************************************)
EXTENDS Integers, Sequences, FiniteSets, TLC

VARIABLES
    \* --- one call of calculate_lp_between_ranks and the call with roles swapped
    g_pc, g_cur, g_tgt, g_fwd, g_bwd,
    \* --- one call of calculate_price_progression, statement by statement
    p_pc, p_base, p_total_lp, p_key, p_mult,
    growth, step, step_price, total_price, progression, p_ret,
    \* --- one run of the script with the calculate button pressed
    f_pc, form, total_lp, divs, ranks, ref_gap, ref_ret, client_ret, calls, ui

gvars == <<g_pc, g_cur, g_tgt, g_fwd, g_bwd>>
pvars == <<p_pc, p_base, p_total_lp, p_key, p_mult,
           growth, step, step_price, total_price, progression, p_ret>>
fvars == <<f_pc, form, total_lp, divs, ranks, ref_gap, ref_ret, client_ret, calls, ui>>
vars  == <<gvars, pvars, fvars>>

-----------------------------------------------------------------------------
(* Bounds of the model.                                                    *)

\* LP values 0..MaxEdgeLP and (99 - MaxEdgeLP)..99 are tried besides the
\* choices of the "Target LP" selectbox
MaxEdgeLP == 1
\* longest progression walked with a growth rate of 0 or 100 percent
MaxTotalLP == 21
\* longest progression walked with a growth rate of 25 or 50 percent
MaxShortLP == 10
\* longest progression walked for the documented cases (rates of 10 and 20 percent)
MaxDocumentedLP == 2
\* the button is modelled for the first MaxFlowRank + 1 ranks of the ladder
MaxFlowRank == 0

-----------------------------------------------------------------------------
(* Exact rational arithmetic for the float prices.                         *)

RECURSIVE GCD(_, _)
GCD(a, b) == IF b = 0 THEN a ELSE GCD(b, a % b)

Norm(x) == LET g == GCD(x[1], x[2]) IN <<x[1] \div g, x[2] \div g>>

Rat(n) == <<n, 1>>

RatAdd(x, y) ==
    LET g == GCD(x[2], y[2])
    IN  Norm(<<x[1] * (y[2] \div g) + y[1] * (x[2] \div g), (x[2] \div g) * y[2]>>)

RatMul(x, y) ==
    LET g1 == GCD(x[1], y[2])
        g2 == GCD(y[1], x[2])
    IN  IF x[1] = 0 \/ y[1] = 0 THEN <<0, 1>>
        ELSE <<(x[1] \div g1) * (y[1] \div g2), (x[2] \div g2) * (y[2] \div g1)>>

RECURSIVE Pow10(_)
Pow10(n) == IF n = 0 THEN 1 ELSE 10 * Pow10(n - 1)

\* the first n decimal digits of r/d (0 <= r < d) as <<digits, remainder>>
RECURSIVE FracDigits(_, _, _, _)
FracDigits(q, r, d, n) ==
    IF n = 0 THEN <<q, r>>
    ELSE FracDigits(q * 10 + ((r * 10) \div d), (r * 10) % d, d, n - 1)

\* Python's round(x, ndigits) for x >= 0, ndigits >= 1: to the nearest multiple
\* of 10^-ndigits, a tie going to the even one
Round(x, ndigits) ==
    LET ip   == x[1] \div x[2]
        fd   == FracDigits(0, x[1] % x[2], x[2], ndigits)
        q    == fd[1]
        rem  == fd[2]
        up   == \/ 2 * rem > x[2]
                \/ (2 * rem = x[2] /\ q % 2 = 1)
        qr   == IF up THEN q + 1 ELSE q
    IN  RatAdd(Rat(ip), Norm(<<qr, Pow10(ndigits)>>))

-----------------------------------------------------------------------------
(* RANK & LP SYSTEM                                                        *)

RANKS == <<"Iron", "Bronze", "Silver", "Gold", "Platinum", "Emerald", "Diamond">>
DIVISIONS == <<"IV", "III", "II", "I">>
LP_PER_DIVISION == 100

\* whether list.index(x) finds x; it raises a ValueError when it does not
Has(list, x) == \E i \in 1..Len(list) : list[i] = x

\* list.index(x) for an x of the list: the 0-based place of its first occurrence
Index(list, x) ==
    (CHOOSE i \in 1..Len(list) :
         list[i] = x /\ \A j \in 1..(i - 1) : list[j] # x) - 1

\* whether rank_index(rank, div) returns; it raises a ValueError otherwise
OnLadder(rank, div) == Has(RANKS, rank) /\ Has(DIVISIONS, div)

rank_index(rank, div) ==
    Index(RANKS, rank) * Len(DIVISIONS) + Index(DIVISIONS, div)

\* for i in range(start, stop): total_lp += LP_PER_DIVISION
RECURSIVE IntermediateLoop(_, _, _)
IntermediateLoop(i, stop, acc) ==
    IF i >= stop THEN acc
    ELSE IntermediateLoop(i + 1, stop, acc + LP_PER_DIVISION)

Abs(n) == IF n < 0 THEN -n ELSE n

\* the value returned or the exception raised by a call
Return(v) == [kind |-> "return", val |-> v]
Raise(e)  == [kind |-> "raise", val |-> e]

calculate_lp_between_ranks_inclusive(current_rank, current_div, current_lp, target_rank, target_div, target_lp) ==
    LET curr_idx   == rank_index(current_rank, current_div)
        target_idx == rank_index(target_rank, target_div)
    IN  IF ~OnLadder(current_rank, current_div) \/ ~OnLadder(target_rank, target_div)
        THEN Raise("ValueError")
        ELSE IF target_idx < curr_idx
                \/ (target_idx = curr_idx /\ target_lp <= current_lp)
        THEN Return(<<0, 0, 0>>)
        ELSE LET lp == IF curr_idx = target_idx
                       THEN target_lp - current_lp
                       ELSE IntermediateLoop(curr_idx, target_idx,
                                (LP_PER_DIVISION - current_lp)) + target_lp
             IN  Return(<<lp, Abs(target_idx - curr_idx),
                          Abs(Index(RANKS, target_rank) - Index(RANKS, current_rank))>>)

calculate_lp_between_ranks_position_only(current_rank, current_div, current_lp, target_rank, target_div, target_lp) ==
    LET curr_idx   == rank_index(current_rank, current_div)
        target_idx == rank_index(target_rank, target_div)
    IN  IF ~OnLadder(current_rank, current_div) \/ ~OnLadder(target_rank, target_div)
        THEN Raise("ValueError")
        ELSE IF target_idx <= curr_idx
        THEN Return(<<0, 0, 0>>)
        ELSE LET lp == IntermediateLoop(curr_idx + 1, target_idx,
                           (LP_PER_DIVISION - current_lp)) + target_lp
             IN  Return(<<lp, Abs(target_idx - curr_idx),
                          Abs(Index(RANKS, target_rank) - Index(RANKS, current_rank))>>)

calculate_lp_between_ranks_no_lp_check(current_rank, current_div, current_lp, target_rank, target_div, target_lp) ==
    LET curr_idx   == rank_index(current_rank, current_div)
        target_idx == rank_index(target_rank, target_div)
    IN  IF ~OnLadder(current_rank, current_div) \/ ~OnLadder(target_rank, target_div)
        THEN Raise("ValueError")
        ELSE IF target_idx < curr_idx
        THEN Return(<<0, 0, 0>>)
        ELSE LET lp == IF curr_idx = target_idx
                       THEN target_lp - current_lp
                       ELSE IntermediateLoop(curr_idx + 1, target_idx,
                                (LP_PER_DIVISION - current_lp)) + target_lp
             IN  Return(<<lp, Abs(target_idx - curr_idx),
                          Abs(Index(RANKS, target_rank) - Index(RANKS, current_rank))>>)

\* LP values are Python ints here (the form's number_input and selectbox give
\* ints), so int(total_lp) leaves the value as it is.
calculate_lp_between_ranks(current_rank, current_div, current_lp, target_rank, target_div, target_lp) ==
    LET curr_idx   == rank_index(current_rank, current_div)
        target_idx == rank_index(target_rank, target_div)
    IN  IF ~OnLadder(current_rank, current_div) \/ ~OnLadder(target_rank, target_div)
        THEN Raise("ValueError")
        ELSE IF target_idx < curr_idx
                \/ (target_idx = curr_idx /\ target_lp <= current_lp)
        THEN Return(<<0, 0, 0>>)
        ELSE LET lp == IF curr_idx = target_idx
                       THEN target_lp - current_lp
                       ELSE IntermediateLoop(curr_idx + 1, target_idx,
                                (LP_PER_DIVISION - current_lp)) + target_lp
             IN  Return(<<lp, Abs(target_idx - curr_idx),
                          Abs(Index(RANKS, target_rank) - Index(RANKS, current_rank))>>)

\* the largest value of the form's "Current LP" number_input
MaxCurrentLP == 99

\* the LP choices of the form's "Target LP" selectbox
TargetLPChoices == {10, 30, 50, 70, 90}

\* the LP values tried: the ends of 0..99 and the selectbox's choices
LPValues ==
    (0..MaxEdgeLP) \cup ((MaxCurrentLP - MaxEdgeLP)..MaxCurrentLP) \cup TargetLPChoices

\* rank names given to the gap calculation: the ladder's and one that is not on it
RankNames == {RANKS[i] : i \in 1..Len(RANKS)} \cup {"Master"}
DivNames  == {DIVISIONS[i] : i \in 1..Len(DIVISIONS)}

Positions == [rank : RankNames, div : DivNames, lp : LPValues]

Nothing == "-"

GapOf(cur, tgt) ==
    calculate_lp_between_ranks(cur.rank, cur.div, cur.lp, tgt.rank, tgt.div, tgt.lp)

-----------------------------------------------------------------------------
(* PRICE PROGRESSION LOGIC                                                 *)

\* multipliers[lp_key] / 100.0 with the dict defaulting to a rate of 0
Lookup_default(multipliers, lp_key) ==
    IF lp_key \in DOMAIN multipliers
    THEN Return(Norm(<<multipliers[lp_key], 100>>))
    ELSE Return(<<0, 1>>)

\* growth = multipliers[lp_key] / 100.0: a KeyError when the dict has no lp_key
Lookup(multipliers, lp_key) ==
    IF lp_key \in DOMAIN multipliers
    THEN Return(Norm(<<multipliers[lp_key], 100>>))
    ELSE Raise("KeyError")

\* the row recorded for a step
Row(s, price, total) ==
    [step |-> s, price |-> Round(price, 4), cumulative |-> Round(total, 2)]

\* the body with the two statements of the compounding in the other order
LoopBody_add_first(st, g, lp) ==
    LET s     == st.step + 1
        total == RatAdd(st.total_price, st.step_price)
        price == RatMul(st.step_price, RatAdd(Rat(1), g))
    IN  [step |-> s, step_price |-> price, total_price |-> total,
         progression |-> IF s % 10 = 0 \/ s = lp
                         THEN Append(st.progression, Row(s, price, total))
                         ELSE st.progression]

\* the body recording every 10th step only
LoopBody_tenth_only(st, g, lp) ==
    LET s     == st.step + 1
        price == RatMul(st.step_price, RatAdd(Rat(1), g))
        total == RatAdd(st.total_price, price)
    IN  [step |-> s, step_price |-> price, total_price |-> total,
         progression |-> IF s % 10 = 0
                         THEN Append(st.progression, Row(s, price, total))
                         ELSE st.progression]

\* one pass of the for loop's body, entered with the next value of step
LoopBody(st, g, lp) ==
    LET s     == st.step + 1
        price == RatMul(st.step_price, RatAdd(Rat(1), g))
        total == RatAdd(st.total_price, price)
    IN  [step |-> s, step_price |-> price, total_price |-> total,
         progression |-> IF s % 10 = 0 \/ s = lp
                         THEN Append(st.progression, Row(s, price, total))
                         ELSE st.progression]

\* a loop that runs its body once before it tests
LoopContinues_do_while(s, lp) == s <= lp

\* for step in range(1, int(total_lp) + 1): s is the last value step took
LoopContinues(s, lp) == s < lp

\* the locals after lines 56 to 58
LoopStart(base_price) ==
    [step |-> 0, step_price |-> base_price, total_price |-> <<0, 1>>,
     progression |-> <<>>]

\* the for loop from the state st on, for at most n more passes; the passes are
\* run in two halves to keep the evaluation shallow
RECURSIVE RunPasses(_, _, _, _)
RunPasses(st, n, g, lp) ==
    IF n <= 0 \/ ~LoopContinues(st.step, lp) THEN st
    ELSE IF n = 1 THEN LoopBody(st, g, lp)
    ELSE RunPasses(RunPasses(st, n \div 2, g, lp), n - (n \div 2), g, lp)

\* the whole for loop, which ends within lp + 1 passes
RunLoop(st, g, lp) == RunPasses(st, lp + 1, g, lp)

\* return round(total_price, 2), progression, step_price
ProgressionResult(st) ==
    Return(<<Round(st.total_price, 2), st.progression, st.step_price>>)

calculate_price_progression(base_price, lp, lp_key, multipliers) ==
    LET g == Lookup(multipliers, lp_key)
    IN  IF g.kind = "raise" THEN g
        ELSE ProgressionResult(RunLoop(LoopStart(base_price), g.val, lp))

\* ref_multipliers = {"fixed": m_fixed}
RefMultipliers(m_fixed) == [k \in {"fixed"} |-> m_fixed]

\* client_multipliers = {"low": m_low, "mid": m_mid, "high": m_high}
ClientMultipliers(m_low, m_mid, m_high) ==
    [k \in {"low", "mid", "high"} |->
        IF k = "low" THEN m_low ELSE IF k = "mid" THEN m_mid ELSE m_high]

-----------------------------------------------------------------------------
(* Resting values of the three groups of variables.                        *)

GapIdle ==
    /\ g_pc = "off" /\ g_cur = Nothing /\ g_tgt = Nothing
    /\ g_fwd = Nothing /\ g_bwd = Nothing

ProgIdle ==
    /\ p_pc = "off" /\ p_base = Nothing /\ p_total_lp = Nothing
    /\ p_key = Nothing /\ p_mult = Nothing /\ growth = Nothing
    /\ step = Nothing /\ step_price = Nothing /\ total_price = Nothing
    /\ progression = Nothing /\ p_ret = Nothing

FlowIdle ==
    /\ f_pc = "off" /\ form = Nothing /\ total_lp = Nothing /\ divs = Nothing
    /\ ranks = Nothing /\ ref_gap = Nothing /\ ref_ret = Nothing
    /\ client_ret = Nothing /\ calls = <<>> /\ ui = Nothing

-----------------------------------------------------------------------------
(* calculate_lp_between_ranks called on a pair of positions, then on the   *)
(* same pair with current and target swapped.                              *)

InitGap ==
    /\ g_pc = "args"
    /\ g_cur \in Positions
    /\ g_tgt \in Positions
    /\ g_fwd = Nothing /\ g_bwd = Nothing
    /\ ProgIdle /\ FlowIdle

GapCall ==
    /\ g_pc = "args"
    /\ g_fwd' = GapOf(g_cur, g_tgt)
    /\ g_pc' = "called"
    /\ UNCHANGED <<g_cur, g_tgt, g_bwd, pvars, fvars>>

GapCallSwapped ==
    /\ g_pc = "called"
    /\ g_bwd' = GapOf(g_tgt, g_cur)
    /\ g_pc' = "swapped"
    /\ UNCHANGED <<g_cur, g_tgt, g_fwd, pvars, fvars>>

NextGap == GapCall \/ GapCallSwapped

SpecGap == InitGap /\ [][NextGap]_vars

-----------------------------------------------------------------------------
(* calculate_price_progression, one statement group at a time.             *)

\* base prices: 1.0, 5.0 and 0.125
BasePrices == {<<1, 1>>, <<5, 1>>, <<1, 8>>}

\* growth rates (percent) whose powers stay small over a long progression
LongRates == {0, 100}
\* growth rates (percent) walked over a shorter progression
ShortRates == {25, 50}
\* the base price and growth rate of the documented cases: 1.0 at 10 percent,
\* 5.0 at 20 percent
DocumentedCases == {<<(<<1, 1>>), 10>>, <<(<<5, 1>>), 20>>}

MultiplierDicts ==
    {RefMultipliers(r) : r \in LongRates \cup ShortRates}
        \cup {ClientMultipliers(25, 50, 100), ClientMultipliers(5, 10, 20)}

Keys == {"fixed", "low", "mid", "high"}

\* the progressions walked: a missing key with any length; otherwise a base
\* price and a growth rate whose float arithmetic is exact (a power-of-two
\* fraction as base price, a rate of 0, 25, 50 or 100 percent), or a
\* documented case
Walked(base_price, multipliers, lp_key, lp) ==
    IF lp_key \notin DOMAIN multipliers THEN lp <= MaxTotalLP
    ELSE IF multipliers[lp_key] \in LongRates THEN lp <= MaxTotalLP
    ELSE IF multipliers[lp_key] \in ShortRates THEN lp <= MaxShortLP
    ELSE <<base_price, multipliers[lp_key]>> \in DocumentedCases /\ lp <= MaxDocumentedLP

InitProg ==
    /\ p_pc = "call"
    /\ p_base \in BasePrices
    /\ p_mult \in MultiplierDicts
    /\ p_key \in Keys
    /\ p_total_lp \in 0..MaxTotalLP
    /\ Walked(p_base, p_mult, p_key, p_total_lp)
    /\ growth = Nothing /\ step = Nothing /\ step_price = Nothing
    /\ total_price = Nothing /\ progression = Nothing /\ p_ret = Nothing
    /\ GapIdle /\ FlowIdle

\* lines 55 to 58
ProgEnter ==
    /\ p_pc = "call"
    /\ LET g == Lookup(p_mult, p_key)
       IN  IF g.kind = "raise"
           THEN /\ p_pc' = "raised"
                /\ p_ret' = g
                /\ UNCHANGED <<growth, step, step_price, total_price, progression>>
           ELSE /\ p_pc' = "loop"
                /\ growth' = g.val
                /\ step' = LoopStart(p_base).step
                /\ step_price' = LoopStart(p_base).step_price
                /\ total_price' = LoopStart(p_base).total_price
                /\ progression' = LoopStart(p_base).progression
                /\ UNCHANGED p_ret
    /\ UNCHANGED <<p_base, p_total_lp, p_key, p_mult, gvars, fvars>>

\* lines 60 to 71, one pass
ProgStep ==
    /\ p_pc = "loop"
    /\ LoopContinues(step, p_total_lp)
    /\ LET st == LoopBody([step |-> step, step_price |-> step_price,
                           total_price |-> total_price,
                           progression |-> progression], growth, p_total_lp)
       IN  /\ step' = st.step
           /\ step_price' = st.step_price
           /\ total_price' = st.total_price
           /\ progression' = st.progression
    /\ UNCHANGED <<p_pc, p_base, p_total_lp, p_key, p_mult, growth, p_ret,
                   gvars, fvars>>

\* line 74
ProgReturn ==
    /\ p_pc = "loop"
    /\ ~LoopContinues(step, p_total_lp)
    /\ p_ret' = ProgressionResult([step |-> step, step_price |-> step_price,
                                   total_price |-> total_price,
                                   progression |-> progression])
    /\ p_pc' = "returned"
    /\ UNCHANGED <<p_base, p_total_lp, p_key, p_mult, growth, step, step_price,
                   total_price, progression, gvars, fvars>>

NextProg == ProgEnter \/ ProgStep \/ ProgReturn

SpecProg == InitProg /\ [][NextProg]_vars

-----------------------------------------------------------------------------
(* Properties of the LP gap calculation, checked under SpecGap.            *)

Pos(p) == rank_index(p.rank, p.div)
Sentinel == Return(<<0, 0, 0>>)
GapCalled == g_pc \in {"called", "swapped"}
BothOnLadder == OnLadder(g_cur.rank, g_cur.div) /\ OnLadder(g_tgt.rank, g_tgt.div)

\* the positions strictly between two positions of the ladder
Between(a, b) == {i \in 0..(Len(RANKS) * Len(DIVISIONS) - 1) : a < i /\ i < b}

\* the target is ahead of the current position: a higher position, or the same
\* position with more LP
Ahead(cur, tgt) ==
    \/ Pos(tgt) > Pos(cur)
    \/ (Pos(tgt) = Pos(cur) /\ tgt.lp > cur.lp)

\* C1: a gap that is not rejected has total LP targetLP - currentLP on one
\* position, and otherwise (100 - currentLP) + 100 * (positions strictly
\* between) + targetLP = 100 * (targetPos - currPos) + targetLP - currentLP;
\* Iron IV 90 LP to Iron III 10 LP is 20 LP.
C1_TotalLP ==
    (GapCalled /\ BothOnLadder /\ g_fwd # Sentinel) =>
        /\ g_fwd.kind = "return"
        /\ Pos(g_cur) = Pos(g_tgt) => g_fwd.val[1] = g_tgt.lp - g_cur.lp
        /\ Pos(g_cur) # Pos(g_tgt) =>
              /\ g_fwd.val[1] = (100 - g_cur.lp)
                                  + 100 * Cardinality(Between(Pos(g_cur), Pos(g_tgt)))
                                  + g_tgt.lp
              /\ g_fwd.val[1] = 100 * (Pos(g_tgt) - Pos(g_cur)) + g_tgt.lp - g_cur.lp
        /\ (/\ g_cur = [rank |-> "Iron", div |-> "IV", lp |-> 90]
            /\ g_tgt = [rank |-> "Iron", div |-> "III", lp |-> 10])
              => g_fwd.val[1] = 20

C1_Witness ==
    /\ g_pc = "called"
    /\ g_cur = [rank |-> "Iron", div |-> "I", lp |-> 99]
    /\ g_tgt = [rank |-> "Silver", div |-> "III", lp |-> 30]
    /\ g_fwd = Return(<<531, 6, 2>>)

\* C2: the call returns (0, 0, 0) exactly when the target position is lower, or
\* it is the same position and targetLP <= currentLP; it is a returned value,
\* not a raised error, also for Iron IV 0 LP to Iron IV 0 LP.
C2_SentinelExactly ==
    (GapCalled /\ BothOnLadder) =>
        /\ g_fwd.kind = "return"
        /\ g_fwd = Sentinel <=>
              \/ Pos(g_tgt) < Pos(g_cur)
              \/ (Pos(g_tgt) = Pos(g_cur) /\ g_tgt.lp <= g_cur.lp)
        /\ (/\ g_cur = [rank |-> "Iron", div |-> "IV", lp |-> 0]
            /\ g_tgt = g_cur) => g_fwd = Sentinel

C2_Witness ==
    /\ g_pc = "called"
    /\ g_cur = [rank |-> "Iron", div |-> "IV", lp |-> 0]
    /\ g_tgt = g_cur
    /\ g_fwd = Sentinel

\* C3: a target strictly ahead of the current position has a strictly positive
\* total LP, and the call with current and target swapped returns (0, 0, 0).
C3_ForwardPositiveSwapInvalid ==
    (GapCalled /\ BothOnLadder /\ Ahead(g_cur, g_tgt)) =>
        /\ g_fwd.kind = "return"
        /\ g_fwd.val[1] > 0
        /\ g_pc = "swapped" => g_bwd = Sentinel

C3_Witness ==
    /\ g_pc = "swapped"
    /\ g_cur = [rank |-> "Gold", div |-> "II", lp |-> 50]
    /\ g_tgt = [rank |-> "Gold", div |-> "II", lp |-> 70]
    /\ g_fwd = Return(<<20, 0, 0>>)
    /\ g_bwd = Sentinel

-----------------------------------------------------------------------------
(* Properties of the price progression, checked under SpecProg.            *)

RECURSIVE RatPow(_, _)
RatPow(x, n) == IF n = 0 THEN Rat(1) ELSE RatMul(x, RatPow(x, n - 1))

\* base * m^1 + ... + base * m^k
RECURSIVE PowerSum(_, _, _)
PowerSum(base, m, k) ==
    IF k = 0 THEN <<0, 1>>
    ELSE RatAdd(PowerSum(base, m, k - 1), RatMul(base, RatPow(m, k)))

KeyPresent == p_key \in DOMAIN p_mult
\* 1 + growthRatePercent / 100 of the call
Factor == RatAdd(Rat(1), Norm(<<p_mult[p_key], 100>>))
InBody == p_pc \in {"loop", "returned"}

\* the steps of 1..lp that are recorded
SampledSteps(lp) == {s \in 1..lp : s % 10 = 0 \/ s = lp}

\* the expected rows: the recorded steps in increasing order, each with the
\* step price and the running total after that step, rounded for display
ExpectedRows(base, m, lp) ==
    [i \in 1..Cardinality(SampledSteps(lp)) |->
        LET s == CHOOSE t \in SampledSteps(lp) :
                     Cardinality({u \in SampledSteps(lp) : u <= t}) = i
        IN  [step |-> s,
             price |-> Round(RatMul(base, RatPow(m, s)), 4),
             cumulative |-> Round(PowerSum(base, m, s), 2)]]

\* C4: after step k the step price is basePrice * (1 + rate/100)^k and the
\* running total is the sum of the step prices of steps 1..k, the base price
\* not among them; base 1.0 at 10 percent gives 1.10 and 1.10 after one step,
\* 1.21 and 2.31 after two.
C4_Compounding ==
    (InBody /\ KeyPresent) =>
        /\ step \in 0..p_total_lp
        /\ step_price = RatMul(p_base, RatPow(Factor, step))
        /\ total_price = PowerSum(p_base, Factor, step)
        /\ p_pc = "returned" =>
              /\ step = p_total_lp
              /\ p_ret.val[1] = Round(PowerSum(p_base, Factor, p_total_lp), 2)
              /\ p_ret.val[3] = RatMul(p_base, RatPow(Factor, p_total_lp))
        /\ (p_base = <<1, 1>> /\ p_mult[p_key] = 10) =>
              /\ step = 1 => (step_price = <<11, 10>> /\ total_price = <<11, 10>>)
              /\ step = 2 => (step_price = <<121, 100>> /\ total_price = <<231, 100>>)
              /\ (p_pc = "returned" /\ p_total_lp = 1) =>
                    (p_ret.val[1] = <<11, 10>> /\ p_ret.val[3] = <<11, 10>>)
              /\ (p_pc = "returned" /\ p_total_lp = 2) =>
                    (p_ret.val[1] = <<231, 100>> /\ p_ret.val[3] = <<121, 100>>)

C4_Witness ==
    /\ p_pc = "returned"
    /\ p_base = <<1, 1>> /\ p_key = "mid" /\ p_mult = ClientMultipliers(5, 10, 20)
    /\ p_total_lp = 2
    /\ p_ret = Return(<<(<<231, 100>>),
                        <<[step |-> 2, price |-> <<121, 100>>,
                           cumulative |-> <<231, 100>>]>>,
                        (<<121, 100>>)>>)

\* C5: the rows returned are the steps of 1..totalLP that are a multiple of 10
\* or equal to totalLP, once each and in increasing order, each with the step
\* price and the running total after that step; for totalLP >= 1 the rows
\* are not empty and the last one is step totalLP.
C5_SampledRows ==
    (InBody /\ KeyPresent) =>
        /\ progression = SubSeq(ExpectedRows(p_base, Factor, p_total_lp), 1,
                                Cardinality({s \in SampledSteps(p_total_lp) : s <= step}))
        /\ \A i \in 1..Len(progression) :
              /\ progression[i].step \in SampledSteps(p_total_lp)
              /\ progression[i].step <= step
              /\ \A j \in 1..(i - 1) : progression[j].step < progression[i].step
        /\ {progression[i].step : i \in 1..Len(progression)}
              = {s \in SampledSteps(p_total_lp) : s <= step}
        /\ p_pc = "returned" =>
              /\ p_ret.val[2] = ExpectedRows(p_base, Factor, p_total_lp)
              /\ p_total_lp >= 1 =>
                    /\ Len(p_ret.val[2]) >= 1
                    /\ p_ret.val[2][Len(p_ret.val[2])].step = p_total_lp

C5_Witness ==
    /\ p_pc = "returned"
    /\ p_total_lp = 21
    /\ p_base = <<1, 8>> /\ p_key = "fixed" /\ p_mult = RefMultipliers(100)
    /\ Len(p_ret.val[2]) = 3
    /\ p_ret.val[2][1].step = 10
    /\ p_ret.val[2][2].step = 20
    /\ p_ret.val[2][3] = [step |-> 21, price |-> <<262144, 1>>,
                          cumulative |-> <<2097151, 4>>]

\* C6: with totalLP = 0 no step is executed: the call returns a total price of
\* 0, no rows and the base price as the final step price, whatever the base
\* price and the growth rate (base 5 at 20 percent among them).
C6_ZeroLP ==
    (InBody /\ KeyPresent /\ p_total_lp = 0) =>
        /\ step = 0
        /\ step_price = p_base
        /\ p_pc = "returned" => p_ret = Return(<<(<<0, 1>>), <<>>, p_base>>)

C6_Witness ==
    /\ p_pc = "returned"
    /\ p_total_lp = 0
    /\ p_base = <<5, 1>> /\ p_key = "high" /\ p_mult = ClientMultipliers(5, 10, 20)
    /\ p_ret = Return(<<(<<0, 1>>), <<>>, (<<5, 1>>)>>)

\* C9: a call with a tier key that the multipliers mapping does not hold fails
\* with a KeyError before any step is executed and before any total or row
\* exists; no growth rate is taken in its place.
C9_UnknownKeyRejected ==
    (p_pc # "off" /\ ~KeyPresent) =>
        /\ p_pc \in {"call", "raised"}
        /\ growth = Nothing /\ step = Nothing /\ step_price = Nothing
        /\ total_price = Nothing /\ progression = Nothing
        /\ p_pc = "raised" => p_ret = Raise("KeyError")
        /\ p_pc = "call" => p_ret = Nothing

C9_Witness ==
    /\ p_pc = "raised"
    /\ p_key = "fixed" /\ p_mult = ClientMultipliers(5, 10, 20)
    /\ p_total_lp = 2
    /\ p_ret = Raise("KeyError")

-----------------------------------------------------------------------------
(* STREAMLIT UI: one run of the script with the calculate button pressed.  *)

\* the smallest choice of the "Target LP" selectbox
FirstTargetLP == 10

\* the ranks of the ladder the form is filled with
FlowRanks == {RANKS[i] : i \in 1..(MaxFlowRank + 1)}

\* forms for a short climb inside Iron IV, priced with growth rates above 0
ShortForms ==
    [current_rank : {"Iron"}, current_div : {"IV"}, current_lp : 0..FirstTargetLP,
     target_rank : {"Iron"}, target_div : {"IV"}, target_lp : {FirstTargetLP},
     base_price : {<<1, 1>>, <<5, 1>>}, m_fixed : {0, 50, 100},
     lp_gain : {"low", "mid", "high"},
     m_low : {25}, m_mid : {50}, m_high : {100}]

\* forms for any climb over the ranks modelled, priced with growth rates of 0
LadderForms ==
    [current_rank : FlowRanks, current_div : DivNames, current_lp : LPValues,
     target_rank : FlowRanks, target_div : DivNames, target_lp : TargetLPChoices,
     base_price : {<<1, 1>>}, m_fixed : {0},
     lp_gain : {"mid"},
     m_low : {0}, m_mid : {0}, m_high : {0}]

\* lines 153 and 154
ref_multipliers == RefMultipliers(form.m_fixed)
client_multipliers == ClientMultipliers(form.m_low, form.m_mid, form.m_high)

\* str.lower() on the selectbox's choices, which are lower case already
Lower(str) == str

\* the script has run with the button not pressed: the prompt of line 235 shows
InitFlow ==
    /\ f_pc = "form"
    /\ form \in ShortForms \cup LadderForms
    /\ total_lp = Nothing /\ divs = Nothing /\ ranks = Nothing
    /\ ref_gap = Nothing /\ ref_ret = Nothing /\ client_ret = Nothing
    /\ calls = <<>>
    /\ ui = "prompt"
    /\ GapIdle /\ ProgIdle

\* lines 161 to 167: the button is pressed, the client gap is computed and checked
ClickCalculate ==
    /\ f_pc = "form"
    /\ LET gap == calculate_lp_between_ranks(form.current_rank, form.current_div,
                      form.current_lp, form.target_rank, form.target_div, form.target_lp)
       IN  /\ total_lp' = gap.val[1]
           /\ divs' = gap.val[2]
           /\ ranks' = gap.val[3]
           /\ IF gap.val[1] <= 0
              THEN ui' = "warning_invalid" /\ f_pc' = "done"
              ELSE ui' = "computing" /\ f_pc' = "reference"
    /\ UNCHANGED <<form, ref_gap, ref_ret, client_ret, calls, gvars, pvars>>

\* lines 170 to 175: the reference path, Iron IV 0 LP to the current position
ReferencePath ==
    /\ f_pc = "reference"
    /\ LET gap == calculate_lp_between_ranks("Iron", "IV", 0, form.current_rank,
                      form.current_div, form.current_lp)
       IN  /\ ref_gap' = gap.val
           /\ ref_ret' = calculate_price_progression(form.base_price, gap.val[1],
                             "fixed", ref_multipliers)
           /\ calls' = Append(calls, [path |-> "reference", lp |-> gap.val[1],
                                      gap |-> gap.val])
    /\ f_pc' = "client"
    /\ UNCHANGED <<form, total_lp, divs, ranks, client_ret, ui, gvars, pvars>>

\* the client path starting from the reference path's displayed (rounded) price
ClientPath_rounded ==
    /\ f_pc = "client"
    /\ client_ret' = calculate_price_progression(Round(ref_ret.val[3], 4), total_lp,
                         Lower(form.lp_gain), client_multipliers)
    /\ calls' = Append(calls, [path |-> "client", lp |-> total_lp,
                               gap |-> <<total_lp, divs, ranks>>])
    /\ f_pc' = "render"
    /\ UNCHANGED <<form, total_lp, divs, ranks, ref_gap, ref_ret, ui, gvars, pvars>>

\* lines 179 to 181: the client path, current to target
ClientPath ==
    /\ f_pc = "client"
    /\ client_ret' = calculate_price_progression(ref_ret.val[3], total_lp,
                         Lower(form.lp_gain), client_multipliers)
    /\ calls' = Append(calls, [path |-> "client", lp |-> total_lp,
                               gap |-> <<total_lp, divs, ranks>>])
    /\ f_pc' = "render"
    /\ UNCHANGED <<form, total_lp, divs, ranks, ref_gap, ref_ret, ui, gvars, pvars>>

\* lines 184 to 232: the results, or the warning when a progression is empty
Render ==
    /\ f_pc = "render"
    /\ ui' = IF ref_ret.val[2] # <<>> /\ client_ret.val[2] # <<>>
             THEN "results"
             ELSE "warning_empty"
    /\ f_pc' = "done"
    /\ UNCHANGED <<form, total_lp, divs, ranks, ref_gap, ref_ret, client_ret, calls,
                   gvars, pvars>>

NextFlow == ClickCalculate \/ ReferencePath \/ ClientPath \/ Render

SpecFlow == InitFlow /\ [][NextFlow]_vars

-----------------------------------------------------------------------------
(* Properties of the calculation run by the button, checked under SpecFlow. *)

FormCurrent ==
    [rank |-> form.current_rank, div |-> form.current_div, lp |-> form.current_lp]
FormTarget ==
    [rank |-> form.target_rank, div |-> form.target_div, lp |-> form.target_lp]

\* the LP from Iron IV 0 LP up to the form's current position
ReferenceLP == 100 * Pos(FormCurrent) + form.current_lp

\* 1 + rate/100 of the reference run and of the client run
FixedFactor == RatAdd(Rat(1), Norm(<<form.m_fixed, 100>>))
TierFactor == RatAdd(Rat(1), Norm(<<client_multipliers[form.lp_gain], 100>>))

\* C7: the reference run comes first and depends on the base price, the
\* current position and the fixed rate only; its final step price R, not
\* rounded, is the base price of the client run, whose result is that of
\* calculate_price_progression(R, T, g) for the client gap T and tier rate g.
C7_Chaining ==
    (Len(calls) >= 1) =>
        /\ f_pc \in {"client", "render", "done"}
        /\ calls[1].path = "reference"
        /\ ref_ret = calculate_price_progression(form.base_price, ReferenceLP,
                         "fixed", RefMultipliers(form.m_fixed))
        /\ form \in ShortForms =>
              ref_ret = Return(<<Round(PowerSum(form.base_price, FixedFactor,
                                                ReferenceLP), 2),
                                 ExpectedRows(form.base_price, FixedFactor, ReferenceLP),
                                 RatMul(form.base_price,
                                        RatPow(FixedFactor, ReferenceLP))>>)
        /\ f_pc = "client" <=> Len(calls) = 1
        /\ Len(calls) >= 2 =>
              /\ Len(calls) = 2 /\ calls[2].path = "client"
              /\ client_ret = calculate_price_progression(ref_ret.val[3], total_lp,
                                  form.lp_gain, client_multipliers)
              /\ form \in ShortForms =>
                    /\ client_ret.val[1] =
                          Round(PowerSum(ref_ret.val[3], TierFactor, total_lp), 2)
                    /\ client_ret.val[2] =
                          ExpectedRows(ref_ret.val[3], TierFactor, total_lp)

C7_Witness ==
    /\ f_pc = "done" /\ ui = "results"
    /\ form.current_lp = 5 /\ form.target_lp = 10
    /\ form.base_price = <<1, 1>> /\ form.m_fixed = 50 /\ form.lp_gain = "low"
    /\ ref_ret.val[3] = <<243, 32>>
    /\ Round(ref_ret.val[3], 4) = <<37969, 5000>>
    /\ total_lp = 5
    /\ client_ret.val[3] = <<759375, 32768>>

\* C8: no call of calculate_price_progression takes its length from a gap
\* result that is the invalid (0, 0, 0), on the client path or on the
\* reference path.
C8_EveryGapChecked ==
    \A i \in 1..Len(calls) : calls[i].gap # <<0, 0, 0>>

\* C10: a forward-valid request ends with the results displayed, and a warning
\* is shown for a request that is not forward only.
C10_ForwardEndsInResults ==
    f_pc = "done" =>
        /\ Ahead(FormCurrent, FormTarget) => ui = "results"
        /\ ui \in {"warning_invalid", "warning_empty"} => ~Ahead(FormCurrent, FormTarget)

====
